---- MODULE Spec2Model ----
(***************************************************************************)
(* Model of python_game.py: a turn based grid game.  The player walks on   *)
(* a grid towards a goal; basic enemies (E) move at random after every     *)
(* player move; Q enemies move every second player move and end the game   *)
(* when the player is within range; a new Q enemy is spawned every tenth   *)
(* player move.                                                            *)
(*                                                                         *)
(* One iteration of the main loop is modelled as a sequence of steps: the  *)
(* input step (read a key, resolve the player's move), one step per        *)
(* take_turn call of the two for loops, and the spawn step.  Every random  *)
(* draw and every key read is a nondeterministic choice.                   *)
(***************************************************************************)
EXTENDS Integers, Sequences, FiniteSets

VARIABLES
    GX, GY,           \* configuration: grid width and height
    entities,         \* world.entities: sequence of entity records
    game_over,        \* world.game_over
    win,              \* world.win
    direction,        \* main: direction
    player_moves,     \* main: player_moves
    moved_this_turn,  \* main: moved_this_turn
    key,              \* main: key, the symbol read by the last getch
    dx, dy,           \* take_turn: the move drawn by the call in progress
    spawn_x, spawn_y, \* main: the spawn cell drawn last (-1: never drawn)
    iter,             \* the entities a for loop has still to visit (indices)
    pc,               \* position in main
    rights            \* number of "d" keys read so far, while no other
                      \* directional key has been read (-1 afterwards)

vars == <<GX, GY, entities, game_over, win, direction, player_moves,
          moved_this_turn, key, dx, dy, spawn_x, spawn_y, iter, pc, rights>>

---------------------------------------------------------------------------
(* Configuration *)

Q_SPAWN_INTERVAL == 10
Q_MOVE_INTERVAL == 2
Q_RANGE == 2

\* Player moves explored in the scenario worlds and in the 32 x 12 world.
MaxMoves == 10
MaxMovesDefault == 1

---------------------------------------------------------------------------
(* Entity system *)

Entity(x, y, char, solid) == [x |-> x, y |-> y, char |-> char, solid |-> solid]

\* Faulty variant of Enemy: a basic enemy that does not block a cell.
EnemyNotSolid(x, y) == Entity(x, y, "E", FALSE)

Enemy(x, y) == Entity(x, y, "E", TRUE)

\* Faulty variant of PlayerEntity: a player that does not block a cell.
PlayerNotSolid(x, y) == Entity(x, y, "@", FALSE)

\* Entity(1, GY - 2, "@", solid=True)
PlayerEntity(x, y) == Entity(x, y, "@", TRUE)

\* Faulty variant of QEnemy: the spawned entity is drawn as a basic enemy.
QEnemyAsBasic(x, y) == Entity(x, y, "E", TRUE)

QEnemy(x, y) == Entity(x, y, "Q", TRUE)

Abs(n) == IF n < 0 THEN -n ELSE n

\* random.choice([(1,0), (-1,0), (0,1), (0,-1), (0,0)])
Choices == {<<1, 0>>, <<-1, 0>>, <<0, 1>>, <<0, -1>>, <<0, 0>>}

---------------------------------------------------------------------------
(* World *)

width == GX

height == GY

\* Faulty variant of get_entity_at: the last entity at (x, y) wins.
get_last_entity_at(ents, x, y) ==
    LET hits == {i \in DOMAIN ents : ents[i].x = x /\ ents[i].y = y}
    IN  IF hits = {} THEN 0 ELSE CHOOSE i \in hits : \A j \in hits : i >= j

\* Index of the first entity at (x, y); 0 stands for None.
get_entity_at(ents, x, y) ==
    LET hits == {i \in DOMAIN ents : ents[i].x = x /\ ents[i].y = y}
    IN  IF hits = {} THEN 0 ELSE CHOOSE i \in hits : \A j \in hits : i <= j

\* Faulty variant of is_solid_at: the left edge is not checked.
is_solid_at_no_left_edge(ents, x, y) ==
    \/ x >= width \/ y < 0 \/ y >= height
    \/ \E i \in DOMAIN ents : ents[i].solid /\ ents[i].x = x /\ ents[i].y = y

\* Faulty variant of is_solid_at: any entity blocks, solid or not.
is_solid_at_any_entity(ents, x, y) ==
    \/ x < 0 \/ x >= width \/ y < 0 \/ y >= height
    \/ \E i \in DOMAIN ents : ents[i].x = x /\ ents[i].y = y

is_solid_at(ents, x, y) ==
    \/ x < 0 \/ x >= width \/ y < 0 \/ y >= height
    \/ \E i \in DOMAIN ents : ents[i].solid /\ ents[i].x = x /\ ents[i].y = y

\* Index of the first entity drawn as "@"; 0 stands for None.
get_player(ents) ==
    LET hits == {i \in DOMAIN ents : ents[i].char = "@"}
    IN  IF hits = {} THEN 0 ELSE CHOOSE i \in hits : \A j \in hits : i <= j

Indices(ents) == [i \in 1..Len(ents) |-> i]

get_enemies(ents) == SelectSeq(Indices(ents), LAMBDA i : ents[i].char = "E")

get_q_enemies(ents) == SelectSeq(Indices(ents), LAMBDA i : ents[i].char = "Q")

MoveTo(ents, i, x, y) == [ents EXCEPT ![i].x = x, ![i].y = y]

---------------------------------------------------------------------------
(* Initial layout: main, before the loop *)

Floor(gx, gy) == [x \in 1..gx |-> Entity(x - 1, gy - 1, "#", TRUE)]

Layout(gx, gy, es, qs) ==
    <<PlayerEntity(1, gy - 2)>>
    \o [i \in 1..Len(es) |-> Enemy(es[i][1], es[i][2])]
    \o [i \in 1..Len(qs) |-> QEnemy(qs[i][1], qs[i][2])]
    \o <<Entity(gx - 3, gy - 2, "G", FALSE)>>
    \o Floor(gx, gy)

\* The world of the program, the small worlds of the test scenarios, and two
\* 6 x 3 worlds where enemies start next to each other.
Worlds ==
    { [gx |-> 32, gy |-> 12, es |-> <<<<10, 10>>, <<18, 9>>, <<24, 10>>>>, qs |-> <<>>],
      [gx |-> 12, gy |-> 3, es |-> <<>>, qs |-> <<>>],
      [gx |-> 12, gy |-> 3, es |-> <<<<2, 1>>>>, qs |-> <<>>],
      [gx |-> 12, gy |-> 4, es |-> <<>>, qs |-> <<<<5, 2>>>>],
      [gx |-> 12, gy |-> 4, es |-> <<<<4, 1>>>>, qs |-> <<>>],
      [gx |-> 6, gy |-> 3, es |-> <<<<4, 0>>>>, qs |-> <<<<5, 1>>>>],
      [gx |-> 6, gy |-> 3, es |-> <<>>, qs |-> <<<<4, 0>>, <<5, 1>>>>] }

InitIn(worlds) ==
    /\ \E w \in worlds :
          /\ GX = w.gx
          /\ GY = w.gy
          /\ entities = Layout(w.gx, w.gy, w.es, w.qs)
    /\ game_over = FALSE
    /\ win = FALSE
    /\ direction = <<0, 0>>
    /\ player_moves = 0
    /\ moved_this_turn = FALSE
    /\ key = "none"
    /\ dx = 0
    /\ dy = 0
    /\ spawn_x = -1
    /\ spawn_y = -1
    /\ iter = <<>>
    /\ pc = "input"
    /\ rights = 0

Init == InitIn(Worlds)

---------------------------------------------------------------------------
(* Main loop *)

\* What getch can return, after chr(key).lower(): no key, the five keys the
\* program knows, and any other key.
Keys == {"none", "w", "a", "s", "d", "q", "x"}

DirKeys == {"w", "a", "s", "d"}

KeyDirection(k, dir) ==
    CASE k = "w" -> <<0, -1>>
      [] k = "s" -> <<0, 1>>
      [] k = "a" -> <<-1, 0>>
      [] k = "d" -> <<1, 0>>
      [] OTHER -> dir

\* Faulty variant of Running: the while test forgets game_over.
RunningUntilWon == ~win

\* Faulty variant of Running: the while test forgets win.
RunningUntilLost == ~game_over

\* while not world.game_over and not world.win
Running == ~game_over /\ ~win

MoveCap == IF GX = 32 THEN MaxMovesDefault ELSE MaxMoves

\* The player entity held by main (the first entity added).
player == 1

\* Faulty variant of TargetIsEnemy: only "E" ends the game.
TargetIsBasicEnemy(ents, t) == t # 0 /\ ents[t].char = "E"

TargetIsEnemy(ents, t) == t # 0 /\ ents[t].char \in {"E", "Q"}

\* Faulty variant of TargetIsGoal: the goal branch is never taken.
TargetIsNeverGoal(ents, t) == FALSE

TargetIsGoal(ents, t) == t # 0 /\ ents[t].char = "G"

\* Faulty variant of PlayerMoves: an entity that is no enemy and no goal
\* never blocks.
PlayerMovesThroughWalls(ents, t, x, y) ==
    IF t # 0
    THEN ~TargetIsEnemy(ents, t) /\ ~TargetIsGoal(ents, t)
    ELSE ~is_solid_at(ents, x, y)

\* The player's move is accepted: a non solid entity, or a free cell in bounds.
PlayerMoves(ents, t, x, y) ==
    IF t # 0
    THEN ~TargetIsEnemy(ents, t) /\ ~TargetIsGoal(ents, t) /\ ~ents[t].solid
    ELSE ~is_solid_at(ents, x, y)

\* Faulty variant of CountMove: every iteration counts.
CountEveryInput(moved, n) == n + 1

\* if moved_this_turn: player_moves += 1
CountMove(moved, n) == IF moved THEN n + 1 ELSE n

\* Faulty variant of EndDirection: the direction is not reset.
DirectionKept(d) == d

\* direction = (0, 0), at the end of an iteration that had a direction
EndDirection(d) == <<0, 0>>

\* History of the keys read, for the scenarios that feed Right repeatedly.
CountRights(k) ==
    IF k \in DirKeys
    THEN (IF k = "d" /\ rights >= 0 THEN rights + 1 ELSE -1)
    ELSE rights

\* One pass from the while test to the first for loop (or to the end of the
\* iteration when the player did not move).
Input(k) ==
    /\ pc = "input"
    /\ Running
    /\ key' = k
    /\ rights' = CountRights(k)
    /\ UNCHANGED <<GX, GY, dx, dy, spawn_x, spawn_y>>
    /\ IF k = "q"
       THEN /\ pc' = "done"
            /\ moved_this_turn' = FALSE
            /\ UNCHANGED <<entities, game_over, win, direction, player_moves, iter>>
       ELSE LET d == KeyDirection(k, direction)
                new_x == entities[player].x + d[1]
                new_y == entities[player].y + d[2]
                target == get_entity_at(entities, new_x, new_y)
                moved == d # <<0, 0>> /\ PlayerMoves(entities, target, new_x, new_y)
            IN  /\ game_over' = (game_over \/ (d # <<0, 0>> /\ TargetIsEnemy(entities, target)))
                /\ win' = (win \/ (d # <<0, 0>> /\ ~TargetIsEnemy(entities, target)
                                               /\ TargetIsGoal(entities, target)))
                /\ entities' = IF moved THEN MoveTo(entities, player, new_x, new_y)
                                        ELSE entities
                /\ moved_this_turn' = moved
                /\ player_moves' = CountMove(moved, player_moves)
                /\ player_moves' <= MoveCap
                /\ IF moved
                   THEN /\ direction' = d
                        /\ iter' = get_enemies(entities')
                        /\ pc' = "enemies"
                   ELSE /\ direction' = (IF d # <<0, 0>> THEN EndDirection(d) ELSE d)
                        /\ iter' = iter
                        /\ pc' = "input"

\* The while test fails: the end screen.
GameEnd ==
    /\ pc = "input"
    /\ ~Running
    /\ pc' = "done"
    /\ UNCHANGED <<GX, GY, entities, game_over, win, direction, player_moves,
                   moved_this_turn, key, dx, dy, spawn_x, spawn_y, iter, rights>>

\* Faulty variant of LoopRest: the for loop breaks once game_over is set.
LoopBreaksWhenLost(rest, over) == IF over THEN <<>> ELSE rest

\* for e in ...: the loop goes on with the rest of the list, whatever
\* take_turn did to game_over.
LoopRest(rest, over) == rest

\* Enemy.take_turn of the next basic enemy, drawing move c.
EnemyTakeTurn(c) ==
    /\ pc = "enemies"
    /\ iter # <<>>
    /\ LET e == Head(iter)
           new_x == entities[e].x + c[1]
           new_y == entities[e].y + c[2]
           p == get_player(entities)
       IN  /\ dx' = c[1]
           /\ dy' = c[2]
           /\ IF is_solid_at(entities, new_x, new_y)
              THEN UNCHANGED <<entities, game_over>>
              ELSE IF p # 0 /\ entities[p].x = new_x /\ entities[p].y = new_y
                   THEN game_over' = TRUE /\ UNCHANGED entities
                   ELSE entities' = MoveTo(entities, e, new_x, new_y) /\ UNCHANGED game_over
    /\ iter' = LoopRest(Tail(iter), game_over')
    /\ UNCHANGED <<GX, GY, win, direction, player_moves, moved_this_turn, key,
                   spawn_x, spawn_y, pc, rights>>

\* The first for loop is over: the second one starts on world.get_q_enemies().
EnemiesDone ==
    /\ pc = "enemies"
    /\ iter = <<>>
    /\ iter' = get_q_enemies(entities)
    /\ pc' = "q_enemies"
    /\ dx' = 0
    /\ dy' = 0
    /\ UNCHANGED <<GX, GY, entities, game_over, win, direction, player_moves,
                   moved_this_turn, key, spawn_x, spawn_y, rights>>

\* Faulty variant of QActive: the cadence uses the count before the increment.
QActiveBeforeIncrement(moves) == (moves - 1) % Q_MOVE_INTERVAL = 0

QActive(moves) == moves % Q_MOVE_INTERVAL = 0

\* Faulty variant of InRange: strict comparison.
InRangeStrict(ents, q, p) ==
    Abs(ents[q].x - ents[p].x) + Abs(ents[q].y - ents[p].y) < Q_RANGE

InRange(ents, q, p) ==
    Abs(ents[q].x - ents[p].x) + Abs(ents[q].y - ents[p].y) <= Q_RANGE

\* QEnemy.take_turn of the next Q enemy on an off turn: it returns at once.
QEnemyRests ==
    /\ pc = "q_enemies"
    /\ iter # <<>>
    /\ ~QActive(player_moves)
    /\ iter' = LoopRest(Tail(iter), game_over)
    /\ dx' = 0
    /\ dy' = 0
    /\ UNCHANGED <<GX, GY, entities, game_over, win, direction, player_moves,
                   moved_this_turn, key, spawn_x, spawn_y, pc, rights>>

\* QEnemy.take_turn of the next Q enemy on its turn, drawing move c.
QEnemyTakeTurn(c) ==
    /\ pc = "q_enemies"
    /\ iter # <<>>
    /\ QActive(player_moves)
    /\ LET q == Head(iter)
           new_x == entities[q].x + c[1]
           new_y == entities[q].y + c[2]
           ents == IF ~is_solid_at(entities, new_x, new_y)
                   THEN MoveTo(entities, q, new_x, new_y)
                   ELSE entities
           p == get_player(ents)
       IN  /\ dx' = c[1]
           /\ dy' = c[2]
           /\ entities' = ents
           /\ game_over' = (game_over \/ (p # 0 /\ InRange(ents, q, p)))
    /\ iter' = LoopRest(Tail(iter), game_over')
    /\ UNCHANGED <<GX, GY, win, direction, player_moves, moved_this_turn, key,
                   spawn_x, spawn_y, pc, rights>>

\* Faulty variant of SpawnDue: wrong interval.
SpawnDueEveryFifth(moves) == moves % 5 = 0

SpawnDue(moves) == moves % Q_SPAWN_INTERVAL = 0

\* The second for loop is over: the spawn test, and the end of the iteration
\* when no spawn is due.
QEnemiesDone ==
    /\ pc = "q_enemies"
    /\ iter = <<>>
    /\ dx' = 0
    /\ dy' = 0
    /\ IF SpawnDue(player_moves)
       THEN pc' = "spawn" /\ UNCHANGED direction
       ELSE pc' = "input" /\ direction' = EndDirection(direction)
    /\ UNCHANGED <<GX, GY, entities, game_over, win, player_moves,
                   moved_this_turn, key, spawn_x, spawn_y, iter, rights>>

\* random.randint(2, GX - 4) and random.randint(1, GY - 3)
SpawnXs == 2..(GX - 4)

SpawnYs == 1..(GY - 3)

\* Faulty variant of AfterSpawn: the Q loop runs on the collection as it is
\* after the spawn.
QLoopAfterSpawn(ents) == [pc |-> "q_enemies", iter |-> get_q_enemies(ents)]

\* The spawn is the last statement of the iteration that moved the player.
AfterSpawn(ents) == [pc |-> "input", iter |-> <<>>]

\* The spawn, drawing cell (sx, sy), and the end of the iteration.
Spawn(sx, sy) ==
    /\ pc = "spawn"
    /\ sx \in SpawnXs
    /\ sy \in SpawnYs
    /\ spawn_x' = sx
    /\ spawn_y' = sy
    /\ entities' = IF ~is_solid_at(entities, sx, sy)
                   THEN Append(entities, QEnemy(sx, sy))
                   ELSE entities
    /\ direction' = EndDirection(direction)
    /\ pc' = AfterSpawn(entities').pc
    /\ iter' = AfterSpawn(entities').iter
    /\ UNCHANGED <<GX, GY, game_over, win, player_moves, moved_this_turn, key,
                   dx, dy, rights>>

\* random.randint raises ValueError on an empty range: main ends.
SpawnError ==
    /\ pc = "spawn"
    /\ SpawnXs = {} \/ SpawnYs = {}
    /\ spawn_x' \in (IF SpawnXs = {} THEN {spawn_x} ELSE SpawnXs)
    /\ pc' = "error"
    /\ UNCHANGED <<GX, GY, entities, game_over, win, direction, player_moves,
                   moved_this_turn, key, dx, dy, spawn_y, iter, rights>>

Next ==
    \/ \E k \in Keys : Input(k)
    \/ GameEnd
    \/ \E c \in Choices : EnemyTakeTurn(c)
    \/ EnemiesDone
    \/ QEnemyRests
    \/ \E c \in Choices : QEnemyTakeTurn(c)
    \/ QEnemiesDone
    \/ \E sx \in SpawnXs, sy \in SpawnYs : Spawn(sx, sy)
    \/ SpawnError

Spec == Init /\ [][Next]_vars

\* The same program on the small worlds without a basic enemy in a 12 column
\* grid.
WorldsNarrow == {w \in Worlds : w.gx < 32 /\ (w.gx # 12 \/ w.es = <<>>)}

SpecNarrow == InitIn(WorldsNarrow) /\ [][Next]_vars

---------------------------------------------------------------------------
(* Properties *)

PlayerAt(x, y) == entities[player].x = x /\ entities[player].y = y

Manhattan(a, b) == Abs(a.x - b.x) + Abs(a.y - b.y)

WorldVars == <<entities, game_over, win, player_moves>>

\* The 12 x 3 world of scenario A: player at (1,1), wall on row 2, goal at
\* (9,1), no enemies.
ScenarioA ==
    /\ GX = 12 /\ GY = 3
    /\ get_enemies(entities) = <<>>
    /\ get_q_enemies(entities) = <<>>
    /\ \E g \in DOMAIN entities :
          entities[g].char = "G" /\ entities[g].x = 9 /\ entities[g].y = 1

\* C1 as stated: in scenario A, after Right has been fed 8 times in a row the
\* status is Won and the player stands at (9,1).
C1_AsStated ==
    (ScenarioA /\ rights = 8) => (win /\ PlayerAt(9, 1))

\* C1 amended: in scenario A, after Right has been fed 8 times in a row the
\* status is Won (not Lost), the player stands at (8,1), next to the goal,
\* and player_moves is 7: the eighth Right sets win without moving the player.
C1_EightRights ==
    (ScenarioA /\ rights = 8) =>
        (win /\ ~game_over /\ PlayerAt(8, 1) /\ player_moves = 7)

C1_Witness == ScenarioA /\ rights = 8 /\ win

\* C2: in every step player_moves grows by 0 or by 1, and by 1 exactly when
\* the player's coordinates change; both can change only in the input step,
\* so a turn changes them at most once.
C2_MovesCountDisplacements ==
    [][ LET displaced == \/ entities'[player].x # entities[player].x
                         \/ entities'[player].y # entities[player].y
        IN  /\ player_moves' \in {player_moves, player_moves + 1}
            /\ (player_moves' = player_moves + 1) <=> displaced
            /\ pc # "input" => (player_moves' = player_moves /\ ~displaced) ]_vars

C2_Witness ==
    /\ pc = "input"
    /\ moved_this_turn
    /\ player_moves = 3
    /\ key \in DirKeys

\* C3: once game_over or win is set it stays set, and from the next read of
\* the while test on nothing changes the flags, the entities or player_moves.
C3_TerminalAbsorbing ==
    [][ /\ game_over => game_over'
        /\ win => win'
        /\ ((game_over \/ win) /\ pc \in {"input", "done", "error"})
              => UNCHANGED WorldVars ]_vars

C3_Witness == pc = "done" /\ game_over /\ player_moves > 0

\* C4: when a directional key is read and the first entity on the target
\* cell is an E or a Q, the iteration ends with game_over set and with the
\* entities, player_moves and win unchanged, without entering the enemy
\* loops or the spawn.
C4_WalkIntoEnemy ==
    [][ (/\ pc = "input" /\ Running
         /\ key' \in DirKeys
         /\ LET d == KeyDirection(key', <<0, 0>>)
                t == get_entity_at(entities, entities[player].x + d[1],
                                             entities[player].y + d[2])
            IN  t # 0 /\ entities[t].char \in {"E", "Q"})
        => (/\ game_over' /\ ~win'
            /\ entities' = entities
            /\ player_moves' = player_moves
            /\ ~moved_this_turn'
            /\ pc' = "input" /\ iter' = iter) ]_vars

\* Scenario B: E at (2,1), player at (1,1), Right read once.
C4_Witness ==
    /\ GX = 12 /\ GY = 3
    /\ rights = 1
    /\ game_over
    /\ PlayerAt(1, 1)
    /\ player_moves = 0
    /\ entities[2].char = "E" /\ entities[2].x = 2 /\ entities[2].y = 1

\* C5 as stated: whenever Enemy.take_turn draws a move whose destination is
\* the player's position, game_over is set (and the enemy stays).
C5_RoamerCollision ==
    [][ (/\ pc = "enemies" /\ iter # <<>>
         /\ entities[Head(iter)].x + dx' = entities[player].x
         /\ entities[Head(iter)].y + dy' = entities[player].y)
        => (game_over' /\ entities' = entities) ]_vars

\* C6: the Q loop runs only in an iteration that moved the player, with the
\* incremented player_moves; a Q take_turn with player_moves odd changes no
\* entity and not game_over, whatever the distance to the player; with
\* player_moves even it is active: ending within range sets game_over.
C6_PursuerCadence ==
    [][ (pc = "q_enemies" /\ iter # <<>>)
        => /\ moved_this_turn
           /\ IF player_moves % 2 # 0
              THEN entities' = entities /\ game_over' = game_over
              ELSE Manhattan(entities'[Head(iter)], entities'[player]) <= 2
                      => game_over' ]_vars

\* An off turn has passed with a Q within range of the player.
C6_Witness ==
    /\ pc = "q_enemies" /\ iter = <<>>
    /\ player_moves % 2 = 1
    /\ ~game_over
    /\ \E q \in DOMAIN entities :
          entities[q].char = "Q" /\ Manhattan(entities[q], entities[player]) <= 2

\* C7: a Q take_turn with player_moves even sets game_over exactly when the
\* Q ends, moved or not, at Manhattan distance <= 2 of the player (and
\* leaves game_over as it was otherwise).
C7_PursuerDetection ==
    [][ (pc = "q_enemies" /\ iter # <<>> /\ player_moves % 2 = 0)
        => LET near == Manhattan(entities'[Head(iter)], entities'[player]) <= 2
           IN  /\ near => game_over'
               /\ ~near => game_over' = game_over ]_vars

\* Scenario C: the one Q of the world drew "stay" at distance exactly 2.
C7_Witness ==
    /\ pc = "q_enemies" /\ iter = <<>>
    /\ player_moves % 2 = 0
    /\ dx = 0 /\ dy = 0
    /\ Len(get_q_enemies(entities)) = 1
    /\ Manhattan(entities[get_q_enemies(entities)[1]], entities[player]) = 2
    /\ game_over

\* C8: the spawn draw is reached exactly in the iterations that incremented
\* player_moves to a multiple of 10; the entity collection grows only in
\* the spawn step, and by one entity.
C8_SpawnTiming ==
    [][ /\ pc = "spawn" => (moved_this_turn /\ player_moves % 10 = 0)
        /\ (pc # "input" /\ pc' = "input" /\ player_moves % 10 = 0)
              => pc = "spawn"
        /\ (pc = "q_enemies" /\ pc' # "q_enemies" /\ player_moves % 10 = 0)
              => pc' = "spawn"
        /\ Len(entities') # Len(entities)
              => (pc = "spawn" /\ Len(entities') = Len(entities) + 1) ]_vars

C8_Witness ==
    /\ pc = "spawn"
    /\ player_moves = 10
    /\ GY = 4

\* C9: reading no key, or a key that is no direction, changes no entity,
\* neither flag and not player_moves.
C9_NoOpInput ==
    [][ (pc = "input" /\ Running /\ key' \notin DirKeys)
        => (/\ UNCHANGED WorldVars
            /\ ~moved_this_turn'
            /\ pc' \in {"input", "done"}) ]_vars

\* No key was read right after an iteration that moved the player.
C9_Witness ==
    /\ pc = "input"
    /\ key \in {"none", "x"}
    /\ player_moves = 2
    /\ Running

\* C10: in the spawn step of the iteration that brought player_moves to 10,
\* if the drawn cell is not solid then the collection is the old one with
\* one Q at that cell appended; if the cell is solid nothing is added.
C10_SpawnOutcome ==
    [][ (pc = "spawn" /\ player_moves = 10 /\ pc' = "input")
        => IF ~is_solid_at(entities, spawn_x', spawn_y')
           THEN entities' = Append(entities,
                    [x |-> spawn_x', y |-> spawn_y', char |-> "Q", solid |-> TRUE])
           ELSE entities' = entities ]_vars

\* A Q stands on the drawn cell right after the spawn of move 10.
C10_Witness ==
    /\ pc = "input"
    /\ player_moves = 10
    /\ spawn_x >= 0 /\ spawn_y >= 0
    /\ entities[Len(entities)] = [x |-> spawn_x, y |-> spawn_y, char |-> "Q", solid |-> TRUE]

LastEntity == entities[Len(entities)]

\* C11: the spawn step ends the iteration: a Q created by it has had no
\* take_turn when the next key is read, it stands on the drawn cell, and
\* the spawn leaves game_over as it was, however close the Q is to the
\* player.
C11_SpawnedQRests ==
    [][ pc = "spawn"
        => /\ pc' \in {"input", "error"}
           /\ iter' = <<>>
           /\ game_over' = game_over
           /\ Len(entities') > Len(entities)
                 => /\ entities'[Len(entities')].x = spawn_x'
                    /\ entities'[Len(entities')].y = spawn_y'
                    /\ entities'[Len(entities')].char = "Q" ]_vars

\* A Q was spawned within range of the player and the game goes on.
C11_Witness ==
    /\ pc = "input"
    /\ player_moves = 10
    /\ moved_this_turn
    /\ ~game_over
    /\ Len(entities) > 1
    /\ LastEntity.char = "Q"
    /\ LastEntity.x = spawn_x /\ LastEntity.y = spawn_y
    /\ Manhattan(LastEntity, entities[player]) <= 2

\* C12: every entity is inside the grid in every reachable state.
C12_InsideGrid ==
    \A i \in DOMAIN entities :
        /\ 0 <= entities[i].x /\ entities[i].x < GX
        /\ 0 <= entities[i].y /\ entities[i].y < GY

\* The player stands on the left edge and has just been refused a step
\* further left.
C12_Witness ==
    /\ pc = "input"
    /\ key = "a"
    /\ ~moved_this_turn
    /\ entities[player].x = 0
    /\ Running

Cells == ((-1)..GX) \X ((-1)..GY)

OutOfBounds(c) == c[1] < 0 \/ c[1] >= GX \/ c[2] < 0 \/ c[2] >= GY

SolidCells == {<<entities[i].x, entities[i].y>> : i \in {j \in DOMAIN entities : entities[j].solid}}

\* The cells around the grid, and the cells inside it.
Ring == {c \in Cells : OutOfBounds(c)}

Inside == (0..(GX - 1)) \X (0..(GY - 1))

\* C13: is_solid_at is true for every cell outside the grid, and for a cell
\* inside the grid exactly when a solid entity stands on it.
C13_SolidAt ==
    LET solid == SolidCells
    IN  /\ \A c \in Ring : is_solid_at(entities, c[1], c[2])
        /\ \A c \in Inside : is_solid_at(entities, c[1], c[2]) <=> c \in solid

\* An iteration has moved the player while a cell inside the grid holds an
\* entity that is not solid (the goal) and no solid one.
C13_Witness ==
    /\ player_moves > 0
    /\ \E g \in DOMAIN entities :
          /\ ~entities[g].solid
          /\ ~is_solid_at(entities, entities[g].x, entities[g].y)

\* C14: when a directional key is read and the target cell is outside the
\* grid, or its first entity is solid and neither an enemy nor the goal,
\* the iteration changes nothing: no move, no count, no enemy loop, no
\* spawn, neither flag.
C14_RejectedMove ==
    [][ (/\ pc = "input" /\ Running
         /\ key' \in DirKeys
         /\ LET d == KeyDirection(key', <<0, 0>>)
                c == <<entities[player].x + d[1], entities[player].y + d[2]>>
                hits == {i \in DOMAIN entities :
                            entities[i].x = c[1] /\ entities[i].y = c[2]}
            IN  \/ OutOfBounds(c)
                \/ \E t \in hits :
                      /\ \A j \in hits : t <= j
                      /\ entities[t].solid
                      /\ entities[t].char \notin {"E", "Q", "G"})
        => (/\ UNCHANGED WorldVars
            /\ ~moved_this_turn'
            /\ pc' = "input" /\ iter' = iter) ]_vars

\* The player has just been refused a step into the wall below.
C14_Witness ==
    /\ pc = "input"
    /\ key = "s"
    /\ ~moved_this_turn
    /\ entities[player].y = GY - 2
    /\ player_moves = 4
    /\ Running

IsEnemy(i) == entities[i].char \in {"E", "Q"}

GoalIndex == CHOOSE g \in DOMAIN entities : entities[g].char = "G"

\* The cell a directional key k aims at.
TargetCell(k) ==
    LET d == KeyDirection(k, <<0, 0>>)
    IN  <<entities[player].x + d[1], entities[player].y + d[2]>>

AtCell(i, c) == entities[i].x = c[1] /\ entities[i].y = c[2]

AimsAtGoal ==
    /\ pc = "input" /\ Running
    /\ key' \in DirKeys
    /\ AtCell(GoalIndex, TargetCell(key'))

ActivatedEnemy ==
    LET es == get_enemies(entities)
    IN  IF pc = "enemies" /\ Len(es) > Len(iter) THEN es[Len(es) - Len(iter)] ELSE 0

C17_NotWonAndLost == ~(win /\ game_over)

\* The game was won next to a Q that had the player in range on an off turn.
C17_Witness ==
    /\ win
    /\ pc = "input"
    /\ \E q \in DOMAIN entities :
          entities[q].char = "Q" /\ Manhattan(entities[q], entities[player]) <= 2

\* C18: no enemy ever stands on the player's cell.
C18_PlayerAlone ==
    \A i \in DOMAIN entities :
        IsEnemy(i) => ~(entities[i].x = entities[player].x
                        /\ entities[i].y = entities[player].y)

\* A basic enemy drew a move onto the player's cell, and stayed.
C18_Witness ==
    /\ ActivatedEnemy # 0
    /\ <<dx, dy>> # <<0, 0>>
    /\ entities[player].x = entities[ActivatedEnemy].x + dx
    /\ entities[player].y = entities[ActivatedEnemy].y + dy

\* C19: the two for loops visit every entity of their list whatever
\* game_over has become (an active Q that draws a free cell still moves
\* there after game_over is set), the spawn test is still made when
\* player_moves is a multiple of 10 and the spawn still adds its Q, and the
\* loop ends only at the next while test.
C19_NoShortCircuit ==
    [][ /\ (pc \in {"enemies", "q_enemies"} /\ iter # <<>>)
              => (pc' = pc /\ iter' = Tail(iter))
        /\ (/\ pc = "q_enemies" /\ iter # <<>> /\ game_over
            /\ player_moves % 2 = 0
            /\ ~is_solid_at(entities, entities[Head(iter)].x + dx',
                                      entities[Head(iter)].y + dy'))
              => /\ entities'[Head(iter)].x = entities[Head(iter)].x + dx'
                 /\ entities'[Head(iter)].y = entities[Head(iter)].y + dy'
        /\ (pc = "q_enemies" /\ iter = <<>> /\ player_moves % 10 = 0)
              => pc' = "spawn"
        /\ (/\ pc = "spawn" /\ game_over /\ pc' = "input"
            /\ ~is_solid_at(entities, spawn_x', spawn_y'))
              => Len(entities') = Len(entities) + 1
        /\ pc \in {"enemies", "q_enemies", "spawn"} => pc' # "done" ]_vars

\* The first Q has the player in range, so its take_turn set game_over; the
\* second Q then drew a move.
C19_Witness ==
    /\ pc = "q_enemies" /\ iter = <<>>
    /\ game_over
    /\ player_moves % 2 = 0
    /\ Len(get_q_enemies(entities)) = 2
    /\ Manhattan(entities[get_q_enemies(entities)[1]], entities[player]) <= 2
    /\ <<dx, dy>> # <<0, 0>>

====
